---- MODULE Spec2Model ----
(***************************************************************************)
(* A model of b_league_schedule_scraper.py: the month range iterator, the  *)
(* text helpers, the two extraction passes, the merge in scrape, the row   *)
(* serializer and the CSV validator.                                        *)
(*                                                                          *)
(* Text is a sequence of Unicode code points, so that Python's string      *)
(* ordering, substring tests and regular expressions are computed rather    *)
(* than assumed.  An Optional value is <<>> (None) or <<v>> (the value v).  *)
(***************************************************************************)
EXTENDS Integers, Sequences, FiniteSets, TLC

VARIABLES
    pc,         \* position of the running operation
    start,      \* <<year, month>> of the start bound
    end,        \* <<year, month>> of the end bound
    y, m,       \* month_iter's cursor
    yielded,    \* the pairs month_iter has yielded so far
    games,      \* the list the running extraction pass is building
    all_games,  \* scrape's accumulated list (the returned list once pc = "done")
    error,      \* the exception that ended the operation, "" if none
    n_items,    \* entries and nodes examined so far in the run
    months_out, \* per processed month: <<year, month, the games the month's extraction returned>>
    text,       \* parse_time's argument
    game,       \* the Game given to to_row
    row,        \* to_row's result
    act, exp,   \* the data rows read_csv returned for the two files
    ok, diffs   \* validate_csv's result

vars == <<pc, start, end, y, m, yielded, games, all_games, error, n_items,
          months_out, text, game, row, act, exp, ok, diffs>>

(***************************************************************************)
(* Bounds of the model.                                                    *)
(***************************************************************************)
FirstYear == 2024
YearSpan == 3
MaxRows == 12
MaxItems == 2

Years == FirstYear..(FirstYear + YearSpan - 1)
YearMonths == Years \X (1..12)

None == << >>
Some(v) == <<v>>

(***************************************************************************)
(* Text: code points, Python's str comparison, substring test.             *)
(***************************************************************************)
IsDigit(c) == c \in 48..57
DigitVal(c) == c - 48
IsSpace(c) == c \in {9, 10, 13, 32, 12288}

\* Python's < on str: lexicographic by code point, a proper prefix is smaller.
RECURSIVE StrLess(_, _)
StrLess(a, b) ==
    IF b = << >> THEN FALSE
    ELSE IF a = << >> THEN TRUE
    ELSE IF a[1] /= b[1] THEN a[1] < b[1]
    ELSE StrLess(Tail(a), Tail(b))

\* Python's `sub in s`.
Contains(s, sub) ==
    \E i \in 0..(Len(s) - Len(sub)) :
        \A k \in 1..Len(sub) : s[i + k] = sub[k]

\* f"{n:02d}" for 0 <= n <= 99, and strftime's %m, %d, %H, %M.
Fmt02(n) == <<48 + (n \div 10), 48 + (n % 10)>>
\* strftime's %Y for a four-digit year.
Fmt04(n) == <<48 + (n \div 1000), 48 + ((n \div 100) % 10),
              48 + ((n \div 10) % 10), 48 + (n % 10)>>
\* The shortest decimal numeral of 0 <= n <= 99, as the pages print numbers.
Dec(n) == IF n < 10 THEN <<48 + n>> ELSE Fmt02(n)

\* re.sub(r"\s+", " ", s).strip()
RECURSIVE Collapse(_)
Collapse(s) ==
    IF s = << >> THEN << >>
    ELSE IF IsSpace(s[1])
         THEN IF Len(s) >= 2 /\ IsSpace(s[2]) THEN Collapse(Tail(s))
              ELSE <<32>> \o Collapse(Tail(s))
         ELSE <<s[1]>> \o Collapse(Tail(s))
Strip(s) ==
    LET keep == {i \in 1..Len(s) : ~IsSpace(s[i])}
    IN  IF keep = {} THEN << >>
        ELSE LET lo == CHOOSE i \in keep : \A j \in keep : i <= j
                 hi == CHOOSE i \in keep : \A j \in keep : j <= i
             IN  SubSeq(s, lo, hi)
clean_text(s) == Strip(Collapse(s))

\* str.upper() on the ASCII letters.
Upper(s) == [i \in 1..Len(s) |-> IF s[i] \in 97..122 THEN s[i] - 32 ELSE s[i]]

(***************************************************************************)
(* Calendar: datetime(year, month, day) and timedelta arithmetic.          *)
(***************************************************************************)
IsLeap(yr) == (yr % 4 = 0 /\ yr % 100 /= 0) \/ yr % 400 = 0
DaysInMonth(yr, mo) ==
    IF mo = 2 THEN (IF IsLeap(yr) THEN 29 ELSE 28)
    ELSE IF mo \in {4, 6, 9, 11} THEN 30 ELSE 31
\* datetime(yr, mo, d) raises ValueError unless this holds.
ValidDate(yr, mo, d) == mo \in 1..12 /\ d >= 1 /\ d <= DaysInMonth(yr, mo)
NextDay(d) ==
    IF d[3] < DaysInMonth(d[1], d[2]) THEN <<d[1], d[2], d[3] + 1>>
    ELSE IF d[2] < 12 THEN <<d[1], d[2] + 1, 1>>
    ELSE <<d[1] + 1, 1, 1>>
\* date.strftime("%Y-%m-%d")
strftime_date(d) == Fmt04(d[1]) \o <<45>> \o Fmt02(d[2]) \o <<45>> \o Fmt02(d[3])

TIMEDELTA_MINUTES == 150

(***************************************************************************)
(* month_iter                                                              *)
(***************************************************************************)
\* the while condition of month_iter
month_iter_cond(cy, cm, e) == (cy < e[1]) \/ (cy = e[1] /\ cm <= e[2])
\* the advance after a yield; a rollover that forgets the year
month_iter_next_noyear(cy, cm) == IF cm = 12 THEN <<cy, 1>> ELSE <<cy, cm + 1>>
month_iter_next(cy, cm) == IF cm = 12 THEN <<cy + 1, 1>> ELSE <<cy, cm + 1>>

(***************************************************************************)
(* parse_time                                                              *)
(***************************************************************************)
Mitei == <<26410, 23450>>     \* "未定"

\* re.search(r"(\d{1,2}):(\d{2})", s): whether a match starts at offset i,
\* with a two-digit hour (tried first) or a one-digit hour.
TimeAt2(s, i) ==
    /\ i + 5 <= Len(s)
    /\ IsDigit(s[i + 1]) /\ IsDigit(s[i + 2]) /\ s[i + 3] = 58
    /\ IsDigit(s[i + 4]) /\ IsDigit(s[i + 5])
TimeAt1(s, i) ==
    /\ i + 4 <= Len(s)
    /\ IsDigit(s[i + 1]) /\ s[i + 2] = 58
    /\ IsDigit(s[i + 3]) /\ IsDigit(s[i + 4])
\* <<hh, mm>> of the leftmost match, or None
TimeSearch(s) ==
    LET hits == {i \in 0..Len(s) : TimeAt2(s, i) \/ TimeAt1(s, i)}
    IN  IF hits = {} THEN None
        ELSE LET i == CHOOSE k \in hits : \A j \in hits : k <= j
             IN  IF TimeAt2(s, i)
                 THEN Some(<<10 * DigitVal(s[i + 1]) + DigitVal(s[i + 2]),
                             10 * DigitVal(s[i + 4]) + DigitVal(s[i + 5])>>)
                 ELSE Some(<<DigitVal(s[i + 1]),
                             10 * DigitVal(s[i + 3]) + DigitVal(s[i + 4])>>)
parse_time(s) ==
    IF Contains(s, Mitei) THEN None
    ELSE LET mt == TimeSearch(s)
         IN  IF mt = None THEN None
             ELSE Some(Fmt02(mt[1][1]) \o <<58>> \o Fmt02(mt[1][2]))

(***************************************************************************)
(* Game.to_row                                                             *)
(***************************************************************************)
HOME == <<91, 72, 79, 77, 69, 93>>      \* "[HOME]"
AWAY == <<91, 65, 87, 65, 89, 93>>      \* "[AWAY]"
VsSep == <<32, 118, 115, 32>>           \* " vs "
AtSep == <<64>>                         \* "@"
Undecided == <<32, 8251, 26178, 21051, 26410, 23450>>   \* " ※時刻未定"
TrueText == <<84, 114, 117, 101>>       \* "True"
FalseText == <<70, 97, 108, 115, 101>>  \* "False"

Game(home_away, opponent, venue, date, start_time) ==
    [home_away |-> home_away, opponent |-> opponent, venue |-> venue,
     date |-> date, start_time |-> start_time]

\* datetime.strptime(s, "%Y-%m-%d %H:%M") on a text whose fields have the
\* widths strftime and parse_time give them: <<y, mo, d, hh, mi>>, or None
\* where strptime raises ValueError.
Num2(s, i) == 10 * DigitVal(s[i]) + DigitVal(s[i + 1])
strptime(s) ==
    IF /\ Len(s) = 16
       /\ \A i \in {1, 2, 3, 4, 6, 7, 9, 10, 12, 13, 15, 16} : IsDigit(s[i])
       /\ s[5] = 45 /\ s[8] = 45 /\ s[11] = 32 /\ s[14] = 58
    THEN LET yr == 100 * Num2(s, 1) + Num2(s, 3)
             mo == Num2(s, 6)
             d  == Num2(s, 9)
             hh == Num2(s, 12)
             mi == Num2(s, 15)
         IN  IF ValidDate(yr, mo, d) /\ hh <= 23 /\ mi <= 59
             THEN Some(<<yr, mo, d, hh, mi>>)
             ELSE None
    ELSE None
\* dt + timedelta(minutes=n), for 0 <= n < 1440
AddMinutes(dt, n) ==
    LET t == dt[4] * 60 + dt[5] + n
    IN  IF t < 1440 THEN <<dt[1], dt[2], dt[3], t \div 60, t % 60>>
        ELSE LET nd == NextDay(<<dt[1], dt[2], dt[3]>>)
             IN  <<nd[1], nd[2], nd[3], (t - 1440) \div 60, (t - 1440) % 60>>
DateOf(dt) == <<dt[1], dt[2], dt[3]>>
strftime_hm(dt) == Fmt02(dt[4]) \o <<58>> \o Fmt02(dt[5])

\* [raised |-> TRUE] where strptime raises, else the seven columns.
to_row(g) ==
    LET subject == g.home_away \o VsSep \o g.opponent \o AtSep \o g.venue
    IN  IF g.start_time = None \/ g.start_time = Some(<< >>)
        THEN [raised |-> FALSE,
              cols |-> <<subject \o Undecided, strftime_date(g.date), << >>,
                         strftime_date(g.date), << >>, TrueText, g.venue>>]
        ELSE LET parsed == strptime(strftime_date(g.date) \o <<32>> \o g.start_time[1])
             IN  IF parsed = None
                 THEN [raised |-> TRUE, cols |-> << >>]
                 ELSE LET start_dt == parsed[1]
                          end_dt == AddMinutes(start_dt, TIMEDELTA_MINUTES)
                      IN  [raised |-> FALSE,
                           cols |-> <<subject, strftime_date(g.date),
                                      strftime_hm(start_dt),
                                      strftime_date(DateOf(start_dt)),
                                      strftime_hm(end_dt), FalseText, g.venue>>]

(***************************************************************************)
(* validate_csv, on the data rows read_csv returned.  A diff line is kept  *)
(* as its parts: the printed row number and the two rows; the length note  *)
(* carries the two lengths.                                                 *)
(***************************************************************************)
MaxDiffs == 10

Min(a, b) == IF a <= b THEN a ELSE b

\* the number printed for 0-based data row i; a label that forgets the header
RowLabelNoHeader(i) == i + 1
RowLabel(i) == i + 2
\* the break after an append; a break that lets an eleventh entry in
DiffLimitReachedLate(d) == Len(d) > MaxDiffs
DiffLimitReached(d) == Len(d) >= MaxDiffs

RowDiff(i, a, e) == [kind |-> "row", label |-> RowLabel(i), actual |-> a, expected |-> e]
LengthNote(a, e) == [kind |-> "length", label |-> 0, actual |-> Len(a), expected |-> Len(e)]

\* the for loop of validate_csv from index i on, with diffs d so far
RECURSIVE RowDiffs(_, _, _, _)
RowDiffs(a, e, i, d) ==
    IF i >= Min(Len(a), Len(e)) THEN d
    ELSE IF a[i + 1] /= e[i + 1]
         THEN LET d2 == Append(d, RowDiff(i, a[i + 1], e[i + 1]))
              IN  IF DiffLimitReached(d2) THEN d2 ELSE RowDiffs(a, e, i + 1, d2)
         ELSE RowDiffs(a, e, i + 1, d)

validate_csv(a, e) ==
    LET same == (a = e)
        d == IF same THEN << >>
             ELSE LET rd == RowDiffs(a, e, 0, << >>)
                  IN  IF Len(a) /= Len(e) THEN Append(rd, LengthNote(a, e)) ELSE rd
    IN  [ok |-> same, diffs |-> d]

(***************************************************************************)
(* Idle values of the variables an operation does not use.                 *)
(***************************************************************************)
IdleIter == start = <<0, 0>> /\ end = <<0, 0>> /\ y = 0 /\ m = 0 /\ yielded = << >>
IdleScrape == games = << >> /\ all_games = << >> /\ n_items = 0 /\ months_out = << >>
IdleRow == text = << >> /\ game = << >> /\ row = << >>
IdleValidate == act = << >> /\ exp = << >> /\ ok = FALSE /\ diffs = << >>

(***************************************************************************)
(* month_iter, run on its own: one step per loop iteration.                *)
(***************************************************************************)
InitMonthIter ==
    /\ pc = "iter" /\ error = ""
    /\ start \in YearMonths /\ end \in YearMonths
    /\ y = start[1] /\ m = start[2]
    /\ yielded = << >>
    /\ IdleScrape /\ IdleRow /\ IdleValidate

MonthIterYield ==
    /\ pc = "iter"
    /\ month_iter_cond(y, m, end)
    /\ yielded' = Append(yielded, <<y, m>>)
    /\ y' = month_iter_next(y, m)[1]
    /\ m' = month_iter_next(y, m)[2]
    /\ UNCHANGED <<pc, start, end, games, all_games, error, n_items, months_out,
                   text, game, row, act, exp, ok, diffs>>

MonthIterStop ==
    /\ pc = "iter"
    /\ ~month_iter_cond(y, m, end)
    /\ pc' = "done"
    /\ UNCHANGED <<start, end, y, m, yielded, games, all_games, error, n_items,
                   months_out, text, game, row, act, exp, ok, diffs>>

NextMonthIter == MonthIterYield \/ MonthIterStop
SpecMonthIter == InitMonthIter /\ [][NextMonthIter]_vars

(***************************************************************************)
(* parse_time then to_row: the start time of an extracted Game is what     *)
(* parse_time returned, and write_google_csv calls to_row on the Game.     *)
(***************************************************************************)
TimeHours == {0, 7, 19, 21, 22, 23, 24, 25}
TimeMinutes == {0, 5, 29, 30, 59, 60, 75}
Gate == <<71, 97, 116, 101, 32>>        \* "Gate "
TimeTexts ==
    {<< >>, Mitei}
    \cup {Dec(h) \o <<58>> \o Fmt02(mi) : h \in TimeHours, mi \in TimeMinutes}
    \cup {Gate \o Fmt02(19) \o <<58>> \o Fmt02(5) \o <<32>> \o Mitei,
          Gate \o Fmt02(19) \o <<58>> \o Fmt02(5) \o <<32>> \o Fmt02(20) \o <<58>> \o Fmt02(0),
          <<49>> \o Fmt02(23) \o <<58>> \o Fmt02(45),
          Fmt02(19) \o <<58>> \o <<53>>}
RowDays == {1, 28, 29, 30, 31}
RowDates == {d \in Years \X (1..12) \X RowDays : ValidDate(d[1], d[2], d[3])}
RowVenue == <<73, 71>>                  \* "IG"
RowOpponent == <<82, 105, 118, 97, 108>> \* "Rival"

InitToRow ==
    /\ pc = "parse_time" /\ error = ""
    /\ text \in TimeTexts
    /\ \E d \in RowDates : game = Game(AWAY, RowOpponent, RowVenue, d, None)
    /\ row = << >>
    /\ IdleIter /\ IdleScrape /\ IdleValidate

ParseTimeStep ==
    /\ pc = "parse_time"
    /\ game' = [game EXCEPT !.start_time = parse_time(text)]
    /\ pc' = "to_row"
    /\ UNCHANGED <<start, end, y, m, yielded, games, all_games, error, n_items,
                   months_out, text, row, act, exp, ok, diffs>>

ToRowReturns ==
    /\ pc = "to_row"
    /\ ~to_row(game).raised
    /\ row' = to_row(game).cols
    /\ pc' = "done"
    /\ UNCHANGED <<start, end, y, m, yielded, games, all_games, error, n_items,
                   months_out, text, game, act, exp, ok, diffs>>

ToRowRaises ==
    /\ pc = "to_row"
    /\ to_row(game).raised
    /\ error' = "ValueError"
    /\ pc' = "raised"
    /\ UNCHANGED <<start, end, y, m, yielded, games, all_games, n_items,
                   months_out, text, game, row, act, exp, ok, diffs>>

NextToRow == ParseTimeStep \/ ToRowReturns \/ ToRowRaises
SpecToRow == InitToRow /\ [][NextToRow]_vars

(***************************************************************************)
(* validate_csv.  The report depends on the rows only through the          *)
(* positions at which they differ, so the expected file is rows of one     *)
(* content and the actual file ranges over every sequence of two contents. *)
(***************************************************************************)
RowContents == {"r0", "r1"}
SeqsUpTo(S, n) == UNION {[1..k -> S] : k \in 0..n}

InitValidate ==
    /\ pc = "validate" /\ error = ""
    /\ act \in SeqsUpTo(RowContents, MaxRows)
    /\ exp \in SeqsUpTo({"r0"}, MaxRows)
    /\ ok = FALSE /\ diffs = << >>
    /\ IdleIter /\ IdleScrape /\ IdleRow

ValidateStep ==
    /\ pc = "validate"
    /\ ok' = validate_csv(act, exp).ok
    /\ diffs' = validate_csv(act, exp).diffs
    /\ pc' = "done"
    /\ UNCHANGED <<start, end, y, m, yielded, games, all_games, error, n_items,
                   months_out, text, game, row, act, exp>>

NextValidate == ValidateStep
SpecValidate == InitValidate /\ [][NextValidate]_vars

(***************************************************************************)
(* Claims about month_iter, to_row, parse_time and validate_csv.           *)
(***************************************************************************)
YMLeq(a, b) == a[1] < b[1] \/ (a[1] = b[1] /\ a[2] <= b[2])
MonthsSpanned(s, e) == (e[1] - s[1]) * 12 + (e[2] - s[2]) + 1
MonthIndex(ym) == ym[1] * 12 + (ym[2] - 1)

\* C6: for start <= end, month_iter yields exactly
\* (end.year - start.year) * 12 + (end.month - start.month) + 1 pairs and then
\* stops: the i-th pair is the (i-1)-th calendar successor of start, its month
\* is in 1..12, the first pair is start and the last is end.
C6_MonthIterExact ==
    YMLeq(start, end) =>
        /\ Len(yielded) <= MonthsSpanned(start, end)
        /\ \A i \in 1..Len(yielded) :
              /\ yielded[i][2] \in 1..12
              /\ MonthIndex(yielded[i]) = MonthIndex(start) + (i - 1)
        /\ pc = "iter" /\ Len(yielded) = MonthsSpanned(start, end)
              => ~month_iter_cond(y, m, end)
        /\ pc = "done" =>
              /\ Len(yielded) = MonthsSpanned(start, end)
              /\ yielded[1] = start
              /\ yielded[Len(yielded)] = end
C6_Witness ==
    /\ pc = "done"
    /\ start[1] < end[1] /\ start[2] > end[2]
    /\ Len(yielded) = MonthsSpanned(start, end)
    /\ \E i \in 1..(Len(yielded) - 1) : yielded[i][2] = 12 /\ yielded[i + 1][2] = 1

\* C7: a Game without start time serializes to empty Start Time and End Time,
\* Start Date = End Date = the fixture date and All Day Event "True"; a Game
\* with start time serializes to All Day Event "False" and an end instant
\* (End Date, End Time) exactly 150 minutes after (Start Date, Start Time).
C7_RowSpan ==
    pc = "done" =>
        IF game.start_time = None
        THEN /\ row[3] = << >> /\ row[5] = << >>
             /\ row[2] = strftime_date(game.date) /\ row[4] = strftime_date(game.date)
             /\ row[6] = TrueText
        ELSE LET s == strptime(row[2] \o <<32>> \o row[3])
                 e == strptime(row[4] \o <<32>> \o row[5])
             IN  /\ row[6] = FalseText
                 /\ s /= None /\ e /= None
                 /\ e[1] = AddMinutes(s[1], 150)

\* C10: every start time parse_time returns is a 24-hour HH:MM with hour in
\* 00..23 and minute in 00..59, and to_row of the Game carrying it never fails.
C10_ValidStartTime ==
    /\ pc \in {"to_row", "done", "raised"} /\ game.start_time /= None =>
          LET t == game.start_time[1]
          IN  /\ Len(t) = 5 /\ t[3] = 58
              /\ Num2(t, 1) \in 0..23 /\ Num2(t, 4) \in 0..59
    /\ error /= "ValueError"

\* C9: validate_csv returns ok with an empty report exactly when the row
\* sequences are equal; otherwise the report is not empty and lists, ascending,
\* the first at most 10 differing positions of the common length, each labelled
\* position + 2, followed by one length note iff the lengths differ.
DiffPositions == {i \in 0..(Min(Len(act), Len(exp)) - 1) : act[i + 1] /= exp[i + 1]}
C9_CompareReport ==
    pc = "done" =>
        LET nrows == IF Len(act) /= Len(exp) THEN Len(diffs) - 1 ELSE Len(diffs)
        IN  /\ ok <=> (act = exp)
            /\ ok => diffs = << >>
            /\ ~ok =>
                /\ diffs /= << >>
                /\ nrows = Min(10, Cardinality(DiffPositions))
                /\ \A j \in 1..nrows :
                      /\ diffs[j].kind = "row"
                      /\ (diffs[j].label - 2) \in DiffPositions
                      /\ Cardinality({i \in DiffPositions : i < diffs[j].label - 2}) = j - 1
                      /\ diffs[j].actual = act[diffs[j].label - 1]
                      /\ diffs[j].expected = exp[diffs[j].label - 1]
                /\ Len(act) /= Len(exp) =>
                      /\ diffs[Len(diffs)].kind = "length"
                      /\ diffs[Len(diffs)].actual = Len(act)
                      /\ diffs[Len(diffs)].expected = Len(exp)
C9_Witness ==
    /\ pc = "done" /\ ~ok
    /\ Cardinality(DiffPositions) > 10
    /\ Len(act) /= Len(exp)
    /\ Len(diffs) = 11

(***************************************************************************)
(* The date patterns of the two passes, searched leftmost, greedy.         *)
(***************************************************************************)
IsDotSlash(c) == c \in {46, 47}             \* [./]
IsDotSlashDash(c) == c \in {46, 47, 45}     \* [./-]
DigitAt(s, i) == i >= 1 /\ i <= Len(s) /\ IsDigit(s[i])
\* the value and width of \d{1,2} at position i, greedy, no backtracking needed
\* when a separator must follow
Num12(s, i) == IF DigitAt(s, i + 1) THEN <<Num2(s, i), 2>> ELSE <<DigitVal(s[i]), 1>>

\* (\d{1,2})[./](\d{1,2}) matching at position i
ShortDateAt(s, i) ==
    /\ DigitAt(s, i)
    /\ LET w == IF DigitAt(s, i + 1) THEN 2 ELSE 1
       IN  /\ i + w <= Len(s) /\ IsDotSlash(s[i + w])
           /\ DigitAt(s, i + w + 1)
\* re.search(r"(\d{1,2})[./](\d{1,2})", s): Some(<<mo, d>>) or None
ShortDateSearch(s) ==
    LET hits == {i \in 1..Len(s) : ShortDateAt(s, i)}
    IN  IF hits = {} THEN None
        ELSE LET i == CHOOSE k \in hits : \A j \in hits : k <= j
                 a == Num12(s, i)
             IN  Some(<<a[1], Num12(s, i + a[2] + 1)[1]>>)

\* (\d{4})[./-](\d{1,2})[./-](\d{1,2}) matching at position i
FullDateAt(s, i) ==
    /\ \A k \in 0..3 : DigitAt(s, i + k)
    /\ i + 4 <= Len(s) /\ IsDotSlashDash(s[i + 4])
    /\ DigitAt(s, i + 5)
    /\ LET w == IF DigitAt(s, i + 6) THEN 2 ELSE 1
       IN  /\ i + 5 + w <= Len(s) /\ IsDotSlashDash(s[i + 5 + w])
           /\ DigitAt(s, i + 5 + w + 1)
\* re.search(r"(\d{4})[./-](\d{1,2})[./-](\d{1,2})", s): Some(<<y, mo, d>>) or None
FullDateSearch(s) ==
    LET hits == {i \in 1..Len(s) : FullDateAt(s, i)}
    IN  IF hits = {} THEN None
        ELSE LET i == CHOOSE k \in hits : \A j \in hits : k <= j
                 a == Num12(s, i + 5)
             IN  Some(<<100 * Num2(s, i) + Num2(s, i + 2), a[1],
                        Num12(s, i + 5 + a[2] + 1)[1]>>)

(***************************************************************************)
(* The identity-key dictionary and the sort of scrape.                     *)
(***************************************************************************)
Key(g) == <<strftime_date(g.date), g.opponent, g.venue>>

\* keyed[key] = g on a dict kept in insertion order
DictPut(d, g) ==
    IF \E i \in 1..Len(d) : Key(d[i]) = Key(g)
    THEN [i \in 1..Len(d) |-> IF Key(d[i]) = Key(g) THEN g ELSE d[i]]
    ELSE Append(d, g)
\* list(keyed.values()) after the loop over gs
RECURSIVE Keyed(_)
Keyed(gs) ==
    IF gs = << >> THEN << >>
    ELSE DictPut(Keyed(SubSeq(gs, 1, Len(gs) - 1)), gs[Len(gs)])

DateLess(a, b) ==
    \/ a[1] < b[1]
    \/ a[1] = b[1] /\ a[2] < b[2]
    \/ a[1] = b[1] /\ a[2] = b[2] /\ a[3] < b[3]
NoTimeKey == <<50, 51, 58, 53, 57>>         \* "23:59"
\* g.start_time or "23:59"
TimeKey(g) ==
    IF g.start_time = None \/ g.start_time = Some(<< >>) THEN NoTimeKey
    ELSE g.start_time[1]
\* (a.date, a.start_time or "23:59", a.venue) < the same tuple of b
SortKeyLess(a, b) ==
    \/ DateLess(a.date, b.date)
    \/ /\ a.date = b.date
       /\ \/ StrLess(TimeKey(a), TimeKey(b))
          \/ TimeKey(a) = TimeKey(b) /\ StrLess(a.venue, b.venue)
\* list.sort is stable: g goes after every element that is not greater
InsertSorted(sorted, g) ==
    LET p == Cardinality({i \in 1..Len(sorted) : ~SortKeyLess(g, sorted[i])})
    IN  SubSeq(sorted, 1, p) \o <<g>> \o SubSeq(sorted, p + 1, Len(sorted))
RECURSIVE SortGames(_)
SortGames(gs) ==
    IF gs = << >> THEN << >>
    ELSE InsertSorted(SortGames(SubSeq(gs, 1, Len(gs) - 1)), gs[Len(gs)])

(***************************************************************************)
(* _parse_schedule_list: one entry of the schedule list.  An entry gives,  *)
(* per sub-element, None when the element is missing and else the text     *)
(* get_text returns.                                                        *)
(***************************************************************************)
HomeWord == <<72, 79, 77, 69>>              \* "HOME"
AwayWord == <<65, 87, 65, 89>>              \* "AWAY"
ToyotaArena == <<84, 79, 89, 79, 84, 65, 32, 65, 82, 69, 78, 65, 32, 84, 79, 75, 89, 79>>
AlvarkHomeKeywords == {ToyotaArena}         \* home_keywords of parse_alvark_month

Skipped == [kind |-> "skip", game |-> << >>]
Raised == [kind |-> "raise", game |-> << >>]
Emitted(g) == [kind |-> "game", game |-> g]

parse_schedule_item(year, month, item) ==
    IF item.day = None \/ item.opp = None \/ item.venue = None THEN Skipped
    ELSE LET date_text == clean_text(item.day[1])
             mt == ShortDateSearch(date_text)
         IN  IF mt = None THEN Skipped
             ELSE LET mo == mt[1][1]
                      day == mt[1][2]
                  IN  IF mo /= month THEN Skipped
                      ELSE IF ~ValidDate(year, mo, day) THEN Raised
                      ELSE LET venue == clean_text(item.venue[1])
                               opponent == clean_text(item.opp[1])
                               time_raw == IF item.time = None THEN << >>
                                           ELSE clean_text(item.time[1])
                               start_time == parse_time(time_raw)
                               home_tag == IF item.tag = None THEN << >>
                                           ELSE Upper(clean_text(item.tag[1]))
                               by_tag == IF Contains(home_tag, HomeWord) THEN HOME ELSE AWAY
                               home_away ==
                                   IF home_tag = << >>
                                      /\ \E kw \in AlvarkHomeKeywords : Contains(venue, kw)
                                   THEN HOME ELSE by_tag
                           IN  Emitted(Game(home_away, opponent, venue,
                                            <<year, mo, day>>, start_time))

(***************************************************************************)
(* parse_alvark_month's fallback: one candidate node.  A node gives the    *)
(* outcome of the marker test, the part of its text that carries the date  *)
(* and the time, what the opponent and venue patterns find in it, and      *)
(* whether its upper-cased text contains HOME or AWAY.                      *)
(***************************************************************************)
parse_heuristic_node(year, node) ==
    IF node.text = << >> \/ ~node.marker THEN Skipped
    ELSE LET m1 == FullDateSearch(node.text)
             m2 == ShortDateSearch(node.text)
         IN  IF m1 = None /\ m2 = None THEN Skipped
             ELSE LET ymd == IF m1 /= None THEN m1[1]
                             ELSE <<year, m2[1][1], m2[1][2]>>
                  IN  IF ~ValidDate(ymd[1], ymd[2], ymd[3]) THEN Raised
                      ELSE LET opponent ==
                                   IF node.op_m /= None THEN node.op_m[1]
                                   ELSE IF node.op_split /= None THEN node.op_split[1]
                                   ELSE << >>
                               v1 == IF node.at_m /= None THEN node.at_m[1] ELSE << >>
                               v2 == IF v1 = << >> /\ node.v_m /= None THEN node.v_m[1] ELSE v1
                               venue == IF v2 = << >> /\ node.arena /= None
                                        THEN node.arena[1] ELSE v2
                               start_time == parse_time(node.text)
                               h1 == IF Contains(venue, ToyotaArena) THEN HOME ELSE AWAY
                               h2 == IF node.has_home THEN HOME ELSE h1
                               home_away == IF node.has_away THEN AWAY ELSE h2
                           IN  IF opponent = << >> THEN Skipped
                               ELSE IF venue = << >> THEN Skipped
                               ELSE Emitted(Game(home_away, opponent, venue, ymd, start_time))

(***************************************************************************)
(* scrape for team "alvark" (parse_sunrockers_month is the same code with  *)
(* other marker and arena lists).  The pages are read entry by entry: each *)
(* step of a pass examines one more entry or node of the month's page, and *)
(* a run examines at most MaxItems of them.                                 *)
(***************************************************************************)
Rival == <<82, 105, 118, 97, 108>>          \* "Rival"
IGVenue == <<73, 71>>                       \* "IG"
ToyotaRaw == <<84, 79, 89, 79, 84, 65, 32, 10, 65, 82, 69, 78, 65, 32, 84, 79, 75, 89, 79>>
TBD == <<84, 66, 68>>                       \* "TBD"
HomeTagText == <<72, 111, 109, 101>>        \* "Home"
T1905 == <<49, 57, 58, 48, 53>>             \* "19:05"
T2359 == <<50, 51, 58, 53, 57>>             \* "23:59"

ScrapeBounds == {<<FirstYear + 1, 11>>, <<FirstYear + 1, 12>>, <<FirstYear + 2, 1>>}
DayNums == {1, 31}
Opt(S) == {None} \cup {Some(t) : t \in S}

DayTexts == {TBD} \cup {Dec(mo) \o <<46>> \o Dec(d) : mo \in {11, 12, 1}, d \in DayNums}
StructuredItems ==
    [day : Opt(DayTexts),
     opp : Opt({<< >>, Rival}),
     venue : Opt({<< >>, IGVenue, ToyotaRaw}),
     time : Opt({Mitei, T1905, T2359}),
     tag : Opt({HomeTagText, AwayWord})]

NodeDates ==
    {<< >>}
    \cup {Fmt04(FirstYear + 1) \o <<45>> \o Dec(mo) \o <<45>> \o Fmt02(d) :
             mo \in {11, 12}, d \in DayNums}
    \cup {Dec(mo) \o <<47>> \o Dec(d) : mo \in {11, 12, 13}, d \in DayNums}
NodeTexts == {clean_text(d \o <<32>> \o t) : d \in NodeDates, t \in {<< >>, T1905, T2359}}
OppFinds ==
    {[op_m |-> Some(Rival), op_split |-> None],
     [op_m |-> None, op_split |-> Some(Rival)],
     [op_m |-> None, op_split |-> Some(<< >>)],
     [op_m |-> None, op_split |-> None]}
VenueFinds ==
    {[at_m |-> Some(IGVenue), v_m |-> None, arena |-> None],
     [at_m |-> Some(<< >>), v_m |-> Some(IGVenue), arena |-> None],
     [at_m |-> Some(<< >>), v_m |-> None, arena |-> None],
     [at_m |-> None, v_m |-> None, arena |-> Some(ToyotaArena)],
     [at_m |-> None, v_m |-> None, arena |-> None]}
TagFinds ==
    {[has_home |-> FALSE, has_away |-> FALSE],
     [has_home |-> TRUE, has_away |-> FALSE],
     [has_home |-> TRUE, has_away |-> TRUE]}
Node(t, mk, o, v, f) ==
    [text |-> t, marker |-> mk, op_m |-> o.op_m, op_split |-> o.op_split,
     at_m |-> v.at_m, v_m |-> v.v_m, arena |-> v.arena,
     has_home |-> f.has_home, has_away |-> f.has_away]
HeuristicNodes ==
    {Node(t, TRUE, o, v, f) : t \in NodeTexts, o \in OppFinds, v \in VenueFinds, f \in TagFinds}
    \cup {Node(t, FALSE, o, v, f) :
             t \in {T1905}, o \in {[op_m |-> None, op_split |-> None]},
             v \in {[at_m |-> None, v_m |-> None, arena |-> None]},
             f \in {[has_home |-> FALSE, has_away |-> FALSE]}}

\* what the loop body does with the entries and nodes a page can hold, per
\* target month
ItemOutcomes ==
    [ym \in ScrapeBounds |->
        {parse_schedule_item(ym[1], ym[2], item) : item \in StructuredItems}]
NodeOutcomes ==
    [ym \in ScrapeBounds |->
        {parse_heuristic_node(ym[1], node) : node \in HeuristicNodes}]

InitScrape ==
    /\ pc = "loop" /\ error = ""
    /\ start \in ScrapeBounds /\ end \in ScrapeBounds
    /\ y = start[1] /\ m = start[2]
    /\ yielded = << >>
    /\ IdleScrape /\ IdleRow /\ IdleValidate

\* month_iter yields (y, m); fetch_month returns the page
ScrapeFetch ==
    /\ pc = "loop"
    /\ month_iter_cond(y, m, end)
    /\ yielded' = Append(yielded, <<y, m>>)
    /\ games' = << >>
    /\ pc' = "structured"
    /\ UNCHANGED <<start, end, y, m, all_games, error, n_items, months_out,
                   text, game, row, act, exp, ok, diffs>>

\* fetch_month raises (requests error or raise_for_status)
ScrapeFetchFails ==
    /\ pc = "loop"
    /\ month_iter_cond(y, m, end)
    /\ yielded' = Append(yielded, <<y, m>>)
    /\ error' = "FetchError"
    /\ pc' = "raised"
    /\ UNCHANGED <<start, end, y, m, games, all_games, n_items, months_out,
                   text, game, row, act, exp, ok, diffs>>

\* one iteration of the for loop of _parse_schedule_list
StructuredItem ==
    /\ pc = "structured"
    /\ n_items < MaxItems
    /\ \E r \in ItemOutcomes[<<y, m>>] :
              /\ n_items' = n_items + 1
              /\ IF r.kind = "raise"
                 THEN /\ error' = "ValueError" /\ pc' = "raised" /\ games' = games
                 ELSE /\ error' = error /\ pc' = pc
                      /\ games' = IF r.kind = "game" THEN Append(games, r.game) ELSE games
    /\ UNCHANGED <<start, end, y, m, yielded, all_games, months_out,
                   text, game, row, act, exp, ok, diffs>>

\* the month's games returned to scrape: all_games.extend, month_iter advances
MonthReturns(out) ==
    /\ all_games' = all_games \o out
    /\ months_out' = Append(months_out, <<y, m, out>>)
    /\ y' = month_iter_next(y, m)[1]
    /\ m' = month_iter_next(y, m)[2]
    /\ games' = << >>
    /\ pc' = "loop"

\* the end of _parse_schedule_list: the keyed dict; a non-empty result is the
\* month's result, an empty one starts the fallback scan
StructuredEnd ==
    /\ pc = "structured"
    /\ IF Keyed(games) /= << >>
       THEN MonthReturns(Keyed(games))
       ELSE /\ pc' = "heuristic" /\ games' = << >>
            /\ UNCHANGED <<y, m, all_games, months_out>>
    /\ UNCHANGED <<start, end, yielded, error, n_items, text, game, row, act, exp, ok, diffs>>

\* one iteration of the for loop over the candidate nodes
HeuristicNode ==
    /\ pc = "heuristic"
    /\ n_items < MaxItems
    /\ \E r \in NodeOutcomes[<<y, m>>] :
              /\ n_items' = n_items + 1
              /\ IF r.kind = "raise"
                 THEN /\ error' = "ValueError" /\ pc' = "raised" /\ games' = games
                 ELSE /\ error' = error /\ pc' = pc
                      /\ games' = IF r.kind = "game" THEN Append(games, r.game) ELSE games
    /\ UNCHANGED <<start, end, y, m, yielded, all_games, months_out,
                   text, game, row, act, exp, ok, diffs>>

\* the end of the fallback scan: the keyed dict is the month's result
HeuristicEnd ==
    /\ pc = "heuristic"
    /\ MonthReturns(Keyed(games))
    /\ UNCHANGED <<start, end, yielded, error, n_items, text, game, row, act, exp, ok, diffs>>

\* month_iter is exhausted: the sort, and scrape returns all_games
ScrapeReturn ==
    /\ pc = "loop"
    /\ ~month_iter_cond(y, m, end)
    /\ all_games' = SortGames(all_games)
    /\ pc' = "done"
    /\ UNCHANGED <<start, end, y, m, yielded, games, error, n_items, months_out,
                   text, game, row, act, exp, ok, diffs>>

NextScrape ==
    \/ ScrapeFetch
    \/ ScrapeFetchFails
    \/ StructuredItem
    \/ StructuredEnd
    \/ HeuristicNode
    \/ HeuristicEnd
    \/ ScrapeReturn
SpecScrape == InitScrape /\ [][NextScrape]_vars

(***************************************************************************)
(* Claims about scrape and the two extraction passes.                      *)
(***************************************************************************)
\* every Game a month's extraction returned, with the month it was returned for
ExtractedGames ==
    UNION {{<<months_out[k][2], months_out[k][3][i]>> : i \in 1..Len(months_out[k][3])} :
              k \in 1..Len(months_out)}

\* C1: the list scrape returns holds at most one Game per identity key
\* (date as YYYY-MM-DD, opponent, venue), also when two months' extractions
\* return the same fixture.
C1_UniqueKeys ==
    pc = "done" =>
        \A i, j \in 1..Len(all_games) :
            i < j => Key(all_games[i]) /= Key(all_games[j])

\* C2: every Game a month's extraction returns, from the structured pass or
\* from the fallback pass, has date.month equal to the target month.
C2_TargetMonth ==
    \A e \in ExtractedGames : e[2].date[2] = e[1]

\* C3: an entry or node whose date text matches the pattern but is no calendar
\* date is skipped; it never ends the run with an exception.
C3_BadDateSkipped ==
    ~(pc = "raised" /\ error = "ValueError")

\* C4: the returned list is ordered by date, then start time with an absent
\* start time after every HH:MM from 00:00 to 23:59 of the same date, then
\* venue.  Stated of the Games with non-empty opponent and venue, so that a
\* violation does not rest on an entry with empty fields.
IsTimed(g) == g.start_time /= None
IntendedLess(a, b) ==
    \/ DateLess(a.date, b.date)
    \/ /\ a.date = b.date
       /\ \/ IsTimed(a) /\ ~IsTimed(b)
          \/ IsTimed(a) /\ IsTimed(b) /\ StrLess(a.start_time[1], b.start_time[1])
          \/ /\ a.start_time = b.start_time
             /\ StrLess(a.venue, b.venue)
WellFormed(g) == g.opponent /= << >> /\ g.venue /= << >>
C4_AbsentTimeLast ==
    pc = "done" =>
        \A i, j \in 1..Len(all_games) :
            (i < j /\ WellFormed(all_games[i]) /\ WellFormed(all_games[j]))
                => ~IntendedLess(all_games[j], all_games[i])

\* C5: when start is after end, scrape fails with InvalidRange before any
\* month is fetched; it does not return.
C5_InvalidRange ==
    ~YMLeq(start, end) =>
        /\ yielded = << >>
        /\ pc /= "done"
        /\ pc = "raised" => error = "InvalidRange"

\* C8: every Game either pass emits has a non-empty opponent and a non-empty
\* venue.
C8_NonEmptyFields ==
    \A e \in ExtractedGames : e[2].opponent /= << >> /\ e[2].venue /= << >>

====
